---- MODULE Spec2Model ----
(***************************************************************************)
(* Emergency-cart inventory (src/item.py): the items table and its three   *)
(* mutators (db_update_exp, db_cut_stock, db_reset_stock), the derived     *)
(* columns computed on every script run (Days_to_Expire), the per-row      *)
(* status label (badge_for_row) and the bundle readiness cards             *)
(* (bundle_status_block).                                                  *)
(*                                                                         *)
(* Dates are day ordinals; a nullable value is <<>> (NULL / NaN / NaT) or  *)
(* <<v>>.                                                                  *)
(***************************************************************************)
EXTENDS Integers, Sequences, FiniteSets, TLC

VARIABLES
    items,          \* the items table: item_name -> row
    today,          \* module global `today` of the last script run
    last,           \* the last db_* request and its response
    Status,         \* the Status column of the dashboard table
    bundle_cards,   \* the cards drawn by bundle_status_block
    detail,         \* the table of problem items under each card
    page,           \* the emergency-cart page the last script run drew
    sess,           \* the db_cut_stock call each browser session is in
    equipment,      \* the equipment table, rows in rowid order
    daily_checks,   \* the daily_checks table, rows in rowid order
    equipment_seq,  \* sqlite_sequence: the highest equipment.id ever given
    checks_seq,     \* sqlite_sequence: the highest daily_checks.id ever given
    dash,           \* what equipment_dashboard_page drew, if it is on screen
    probe,          \* one row taken through the derived columns
    conn,           \* a TursoConnection and the client it wraps
    cursor,         \* the TursoCursor of the last result, and what it returned
    backup,         \* device.py: the clock, app_meta and the backup folder
    legacy_csv      \* the file item_ORM.csv, if there is one

cartVars == <<items, today, last, Status, bundle_cards, detail, page>>
equipVars == <<equipment, daily_checks, equipment_seq, checks_seq, dash>>

tursoVars == <<conn, cursor>>
sideVars == <<tursoVars, backup, legacy_csv>>

\* what the emergency-cart steps leave alone
notCart == <<sess, equipVars, probe, sideVars>>

\* what the equipment steps leave alone
notEquip == <<cartVars, sess, probe, sideVars>>

vars == <<cartVars, sess, equipVars, probe, sideVars>>

---------------------------------------------------------------------------
(* Bounds of the model *)

MaxStock == 2     \* largest stock / current_stock of an initial row
MaxCur == 3       \* cap on current_stock when a negative quantity is cut
MaxQty == 3       \* largest quantity requested
MaxNeg == 1       \* most negative quantity requested is -MaxNeg
MaxToday == 1     \* last day the clock reaches

(* Program constants *)

WarnDays == 30
NoDays == 999999

---------------------------------------------------------------------------
(* Values *)

NULL == <<>>
Some(v) == <<v>>
IsNull(x) == x = <<>>
Val(x) == x[1]

\* item names in their string order (ORDER BY item_name)
NameOrder == <<"a", "b", "c">>
Names == {NameOrder[i] : i \in 1..Len(NameOrder)}
NameRank(n) == CHOOSE i \in 1..Len(NameOrder) : NameOrder[i] = n

\* expiry dates of the initial rows: on the first day they are 0, 1, 31 and 32
\* days away, on the next day -1, 0, 30 and 31
ExpDates == {0, 1, WarnDays + 1, WarnDays + 2}

\* the dates entered when an expiry date is edited
EditDates == {0, WarnDays + 1}

\* bundle tags of the rows a, b, c: untagged rows, one group, tags that differ
\* only in case and blanks, two groups
BundleLayouts ==
    {<<NULL, NULL, NULL>>,
     <<Some("iv"), Some("iv"), Some("iv")>>,
     <<Some("iv"), Some("IV "), Some("iv")>>,
     <<Some("iv"), Some("iv"), Some("cpr")>>,
     <<NULL, Some("iv"), Some("cpr")>>,
     <<Some("cpr"), NULL, Some("IV ")>>}

\* .astype(str).str.strip().str.lower()
BundleKey(tag) ==
    CASE tag = "IV " -> "iv"
      [] OTHER -> tag

\* status labels of badge_for_row
NoEXP == "No EXP"
Out == "Out"
EXP == "EXP"
Soon == "<=30d"
Low == "Low"
OK == "OK"

\* ValueError messages of db_cut_stock
NoError == "none"
ErrDepleted == "stock is already used up"
ErrExceeds == "quantity used exceeds current stock"

---------------------------------------------------------------------------
(* Derived columns, computed at the top of every script run *)

\* pd.to_datetime(EXP_Date, errors="coerce"): the stored ISO text or NULL
EXP_Date_ts(exp_date) == exp_date

\* (EXP_Date_ts - today).dt.days, NaN for NaT
Days_to_Expire(exp_date, td) ==
    IF IsNull(EXP_Date_ts(exp_date)) THEN NULL
    ELSE Some(Val(EXP_Date_ts(exp_date)) - td)

\* load_items plus the derived columns: one dataframe row per table row
df_items(its, td) ==
    [n \in DOMAIN its |->
        [Item_Name |-> n,
         Stock |-> its[n].stock,
         Current_Stock |-> Some(its[n].current_stock),
         EXP_Date_ts |-> EXP_Date_ts(its[n].exp_date),
         Days_to_Expire |-> Days_to_Expire(its[n].exp_date, td),
         Bundle |-> its[n].bundle]]

\* sort_values(["EXP_Date_ts", "Item_Name"], na_position="last")
RowBefore(r1, r2) ==
    IF IsNull(r1.EXP_Date_ts) /\ IsNull(r2.EXP_Date_ts)
        THEN NameRank(r1.Item_Name) < NameRank(r2.Item_Name)
    ELSE IF IsNull(r1.EXP_Date_ts) THEN FALSE
    ELSE IF IsNull(r2.EXP_Date_ts) THEN TRUE
    ELSE \/ Val(r1.EXP_Date_ts) < Val(r2.EXP_Date_ts)
         \/ /\ Val(r1.EXP_Date_ts) = Val(r2.EXP_Date_ts)
            /\ NameRank(r1.Item_Name) < NameRank(r2.Item_Name)

RECURSIVE SortRows(_)
SortRows(rows) ==
    IF rows = {} THEN <<>>
    ELSE LET first == CHOOSE r \in rows : \A o \in rows \ {r} : RowBefore(r, o)
         IN  <<first>> \o SortRows(rows \ {first})

df_sorted(its, td) ==
    LET df == df_items(its, td)
    IN  SortRows({df[n] : n \in DOMAIN df})

---------------------------------------------------------------------------
(* Status label of one row *)

\* as badge_for_row, with the expiry rules tried before the stock-out rule
badge_expiry_first(row) ==
    LET days == row.Days_to_Expire
        cur == row.Current_Stock
    IN  IF IsNull(days) THEN NoEXP
        ELSE IF Val(days) <= 0 THEN EXP
        ELSE IF ~IsNull(cur) /\ Val(cur) <= 0 THEN Out
        ELSE IF 0 < Val(days) /\ Val(days) <= 30 THEN Soon
        ELSE IF ~IsNull(cur) /\ Val(cur) = 1 THEN Low
        ELSE OK

\* as badge_for_row, with the day of expiry itself not yet counted as expired
badge_expired_strict(row) ==
    LET days == row.Days_to_Expire
        cur == row.Current_Stock
    IN  IF IsNull(days) THEN NoEXP
        ELSE IF ~IsNull(cur) /\ Val(cur) <= 0 THEN Out
        ELSE IF Val(days) < 0 THEN EXP
        ELSE IF 0 <= Val(days) /\ Val(days) <= 30 THEN Soon
        ELSE IF ~IsNull(cur) /\ Val(cur) = 1 THEN Low
        ELSE OK

\* as badge_for_row, with day 30 outside the expiring-soon window
badge_soon_strict(row) ==
    LET days == row.Days_to_Expire
        cur == row.Current_Stock
    IN  IF IsNull(days) THEN NoEXP
        ELSE IF ~IsNull(cur) /\ Val(cur) <= 0 THEN Out
        ELSE IF Val(days) <= 0 THEN EXP
        ELSE IF 0 < Val(days) /\ Val(days) < 30 THEN Soon
        ELSE IF ~IsNull(cur) /\ Val(cur) = 1 THEN Low
        ELSE OK

badge_for_row(row) ==
    LET days == row.Days_to_Expire
        cur == row.Current_Stock
    IN  IF IsNull(days) THEN NoEXP
        ELSE IF ~IsNull(cur) /\ Val(cur) <= 0 THEN Out
        ELSE IF Val(days) <= 0 THEN EXP
        ELSE IF 0 < Val(days) /\ Val(days) <= 30 THEN Soon
        ELSE IF ~IsNull(cur) /\ Val(cur) = 1 THEN Low
        ELSE OK

\* the background colours of highlight_row, and no colour
Red == "#ffe5e5"
Yellow == "#fff7d6"
NoColour == ""

\* the style highlight_row gives to every cell of the row
highlight_row(row) ==
    LET days == row.Days_to_Expire
        cur == row.Current_Stock
    IN  IF IsNull(days) THEN NoColour
        ELSE IF Val(days) <= 0 THEN Red
        ELSE IF 0 < Val(days) /\ Val(days) <= 30 THEN Yellow
        ELSE IF ~IsNull(cur) /\ Val(cur) <= 0 THEN Red
        ELSE NoColour

\* df_view.insert(0, "Status", df_view.apply(badge_for_row, axis=1))
StatusColumn(its, td) ==
    LET df == df_items(its, td)
    IN  [n \in DOMAIN df |-> badge_for_row(df[n])]

---------------------------------------------------------------------------
(* Bundle readiness cards *)

\* .fillna(0) of Current_Stock and .fillna(999999) of Days_to_Expire
StockFilled(row) == IF IsNull(row.Current_Stock) THEN 0 ELSE Val(row.Current_Stock)
DaysFilled(row) == IF IsNull(row.Days_to_Expire) THEN NoDays ELSE Val(row.Days_to_Expire)

\* drop_duplicates(subset=["Item_Name"]): the first row of each name is kept
RECURSIVE drop_duplicates(_)
drop_duplicates(df) ==
    IF df = <<>> THEN <<>>
    ELSE LET before == drop_duplicates(SubSeq(df, 1, Len(df) - 1))
             r == df[Len(df)]
         IN  IF \E i \in 1..Len(before) : before[i].Item_Name = r.Item_Name
             THEN before
             ELSE Append(before, r)

RowsOf(g) == {g[i] : i \in 1..Len(g)}

\* as classify_problems, with the expiring-soon rows left out of the problems
classify_problems_no_soon(g, warn_days) ==
    LET expired == SelectSeq(g, LAMBDA r : DaysFilled(r) <= 0)
        exp_soon == SelectSeq(g, LAMBDA r :
                        DaysFilled(r) > 0 /\ DaysFilled(r) <= warn_days)
        out_stock == SelectSeq(g, LAMBDA r : StockFilled(r) <= 0)
        problem == drop_duplicates(expired \o out_stock)
    IN  [expired |-> expired, exp_soon |-> exp_soon,
         out_stock |-> out_stock, problem |-> problem]

\* as classify_problems, with the unknown expiry filled with 0 instead of 999999
classify_problems_fill_zero(g, warn_days) ==
    LET Days(r) == IF IsNull(r.Days_to_Expire) THEN 0 ELSE Val(r.Days_to_Expire)
        expired == SelectSeq(g, LAMBDA r : Days(r) <= 0)
        exp_soon == SelectSeq(g, LAMBDA r : Days(r) > 0 /\ Days(r) <= warn_days)
        out_stock == SelectSeq(g, LAMBDA r : StockFilled(r) <= 0)
        problem == drop_duplicates(expired \o exp_soon \o out_stock)
    IN  [expired |-> expired, exp_soon |-> exp_soon,
         out_stock |-> out_stock, problem |-> problem]

\* g[mask] keeps the rows of g that satisfy the mask, in g's order
classify_problems(g, warn_days) ==
    LET expired == SelectSeq(g, LAMBDA r : DaysFilled(r) <= 0)
        exp_soon == SelectSeq(g, LAMBDA r :
                        DaysFilled(r) > 0 /\ DaysFilled(r) <= warn_days)
        out_stock == SelectSeq(g, LAMBDA r : StockFilled(r) <= 0)
        problem == drop_duplicates(expired \o exp_soon \o out_stock)
    IN  [expired |-> expired, exp_soon |-> exp_soon,
         out_stock |-> out_stock, problem |-> problem]

\* as df_bundle, with the tags turned into text before the untagged rows
\* are dropped: a missing tag becomes the tag "none"
df_bundle_untagged_as_text(df) ==
    [i \in 1..Len(df) |->
        [df[i] EXCEPT !.Bundle = IF IsNull(df[i].Bundle) THEN Some("none")
                                 ELSE Some(BundleKey(Val(df[i].Bundle)))]]

\* df[df["Bundle"].notna()] with the Bundle column normalised
df_bundle(df) ==
    LET tagged == SelectSeq(df, LAMBDA r : ~IsNull(r.Bundle))
    IN  [i \in 1..Len(tagged) |->
            [tagged[i] EXCEPT !.Bundle = Some(BundleKey(Val(tagged[i].Bundle)))]]

\* one card per group of df_bundle.groupby("Bundle")
bundle_status_block(df, warn_days) ==
    LET dfb == df_bundle(df)
        keys == {Val(r.Bundle) : r \in RowsOf(dfb)}
    IN  [bundle_key \in keys |->
            LET g == SelectSeq(dfb, LAMBDA r : Val(r.Bundle) = bundle_key)
                problem_df == classify_problems(g, warn_days).problem
            IN  [is_ready |-> problem_df = <<>>,
                 total_items |-> Len(g),
                 problem_count |-> Len(problem_df),
                 problem |-> [i \in 1..Len(problem_df) |-> problem_df[i].Item_Name]]]

\* dashboard_page: bundle_status_block(df_sorted) with warn_days = 30
BundleCards(its, td) == bundle_status_block(df_sorted(its, td), WarnDays)

\* the sort of the detail table is not a stable one: rows of equal
\* Days_to_Expire come out in any order, here the order of their rank in tie
TieBreaks == {[n \in Names |-> NameRank(p[n])] : p \in Permutations(Names)}

\* as sort_values, by the name of the item
RECURSIVE sort_values_by_name(_, _)
sort_values_by_name(rows, tie) ==
    IF rows = {} THEN <<>>
    ELSE LET first == CHOOSE r \in rows : \A o \in rows \ {r} :
                        NameRank(r.Item_Name) < NameRank(o.Item_Name)
         IN  <<first>> \o sort_values_by_name(rows \ {first}, tie)

\* sort_values(["Days_to_Expire"], ascending=True) of the problem rows
RECURSIVE sort_values(_, _)
sort_values(rows, tie) ==
    IF rows = {} THEN <<>>
    ELSE LET first == CHOOSE r \in rows : \A o \in rows \ {r} :
                        \/ DaysFilled(r) < DaysFilled(o)
                        \/ /\ DaysFilled(r) = DaysFilled(o)
                           /\ tie[r.Item_Name] < tie[o.Item_Name]
         IN  <<first>> \o sort_values(rows \ {first}, tie)

\* the table in the expander of each card: the rows of problem_df, which the
\* card counts, in the order shown (their names)
bundle_detail(cards, its, td, tie) ==
    [bundle_key \in DOMAIN cards |->
        LET problem_df == cards[bundle_key].problem
            rows == {[Item_Name |-> problem_df[i],
                      Days_to_Expire |-> Days_to_Expire(its[problem_df[i]].exp_date, td)] :
                        i \in 1..Len(problem_df)}
            shown == sort_values(rows, tie)
        IN  [i \in 1..Len(shown) |-> shown[i].Item_Name]]

\* two problem rows of one card have the same Days_to_Expire
HasTie(cards, its, td) ==
    \E bundle_key \in DOMAIN cards :
        \E i, j \in 1..Len(cards[bundle_key].problem) :
            /\ i < j
            /\ Days_to_Expire(its[cards[bundle_key].problem[i]].exp_date, td)
                 = Days_to_Expire(its[cards[bundle_key].problem[j]].exp_date, td)

\* the tables that the sort may show under the cards
BundleDetails(cards, its, td) ==
    IF HasTie(cards, its, td)
    THEN {bundle_detail(cards, its, td, tie) : tie \in TieBreaks}
    ELSE {bundle_detail(cards, its, td, [n \in Names |-> NameRank(n)])}

\* the frame load_items returns: the rows in the order of ORDER BY item_name
df_loaded(its, td) ==
    LET names == SelectSeq(NameOrder, LAMBDA n : n \in DOMAIN its)
    IN  [i \in 1..Len(names) |-> df_items(its, td)[names[i]]]

---------------------------------------------------------------------------
(* The items table and its mutators *)

Row(stock, current_stock, exp_date, bundle) ==
    [stock |-> stock, current_stock |-> current_stock,
     exp_date |-> exp_date, bundle |-> bundle]

Request(op, item_name, arg, err, ret) ==
    [op |-> op, item_name |-> item_name, arg |-> arg, err |-> err, ret |-> ret]

\* UPDATE items SET <field>=? WHERE item_name=?  (no row: nothing changes)
UpdateExp(its, item_name, v) ==
    IF item_name \in DOMAIN its THEN [its EXCEPT ![item_name].exp_date = v] ELSE its

UpdateCurrentStock(its, item_name, v) ==
    IF item_name \in DOMAIN its THEN [its EXCEPT ![item_name].current_stock = v] ELSE its

\* SELECT <field> FROM items WHERE item_name=?, then
\* int(row[0]) if row and row[0] is not None else 0
SelectCurrentStock(its, item_name) ==
    IF item_name \in DOMAIN its THEN its[item_name].current_stock ELSE 0

SelectStock(its, item_name) ==
    IF item_name \in DOMAIN its THEN its[item_name].stock ELSE 0

db_update_exp(item_name, new_exp) ==
    /\ items' = UpdateExp(items, item_name, Some(new_exp))
    /\ last' = Request("db_update_exp", item_name, new_exp, NoError, 0)

\* as db_cut_stock, without the check of the quantity against the stock
db_cut_stock_unchecked(item_name, qty_use) ==
    LET cur == SelectCurrentStock(items, item_name)
    IN  IF cur <= 0 THEN
            /\ items' = items
            /\ last' = Request("db_cut_stock", item_name, qty_use, ErrDepleted, 0)
        ELSE
            /\ items' = UpdateCurrentStock(items, item_name, cur - qty_use)
            /\ last' = Request("db_cut_stock", item_name, qty_use, NoError, 0)

\* as db_cut_stock, with the quantity checked before the empty stock
db_cut_stock_quantity_first(item_name, qty_use) ==
    LET cur == SelectCurrentStock(items, item_name)
    IN  IF qty_use > cur THEN
            /\ items' = items
            /\ last' = Request("db_cut_stock", item_name, qty_use, ErrExceeds, 0)
        ELSE IF cur <= 0 THEN
            /\ items' = items
            /\ last' = Request("db_cut_stock", item_name, qty_use, ErrDepleted, 0)
        ELSE
            /\ items' = UpdateCurrentStock(items, item_name, cur - qty_use)
            /\ last' = Request("db_cut_stock", item_name, qty_use, NoError, 0)

\* as db_cut_stock, accepting one unit more than the stock holds
db_cut_stock_off_by_one(item_name, qty_use) ==
    LET cur == SelectCurrentStock(items, item_name)
    IN  IF cur <= 0 THEN
            /\ items' = items
            /\ last' = Request("db_cut_stock", item_name, qty_use, ErrDepleted, 0)
        ELSE IF qty_use > cur + 1 THEN
            /\ items' = items
            /\ last' = Request("db_cut_stock", item_name, qty_use, ErrExceeds, 0)
        ELSE
            /\ items' = UpdateCurrentStock(items, item_name, cur - qty_use)
            /\ last' = Request("db_cut_stock", item_name, qty_use, NoError, 0)

\* as db_reset_stock, adding the par stock to the stock in hand
db_reset_stock_adds(item_name) ==
    LET base == SelectStock(items, item_name)
    IN  /\ items' = UpdateCurrentStock(items, item_name,
                        base + SelectCurrentStock(items, item_name))
        /\ last' = Request("db_reset_stock", item_name, 0, NoError, base)

db_cut_stock(item_name, qty_use) ==
    LET cur == SelectCurrentStock(items, item_name)
    IN  IF cur <= 0 THEN
            /\ items' = items
            /\ last' = Request("db_cut_stock", item_name, qty_use, ErrDepleted, 0)
        ELSE IF qty_use > cur THEN
            /\ items' = items
            /\ last' = Request("db_cut_stock", item_name, qty_use, ErrExceeds, 0)
        ELSE
            /\ items' = UpdateCurrentStock(items, item_name, cur - qty_use)
            /\ last' = Request("db_cut_stock", item_name, qty_use, NoError, 0)

\* as db_reset_stock, with the UPDATE lacking its WHERE clause
db_reset_stock_every_item(item_name) ==
    LET base == SelectStock(items, item_name)
    IN  /\ items' = [n \in DOMAIN items |-> [items[n] EXCEPT !.current_stock = base]]
        /\ last' = Request("db_reset_stock", item_name, 0, NoError, base)

db_reset_stock(item_name) ==
    LET base == SelectStock(items, item_name)
    IN  /\ items' = UpdateCurrentStock(items, item_name, base)
        /\ last' = Request("db_reset_stock", item_name, 0, NoError, base)

---------------------------------------------------------------------------
(* A script run: the clock is read, the table loaded, the page drawn *)

\* today = pd.Timestamp.today().normalize(): the clock never runs backwards
Clock == today..MaxToday

\* dashboard_page over the table as it is at the end of the step
Render ==
    /\ today' \in Clock
    /\ Status' = StatusColumn(items', today')
    /\ bundle_cards' = BundleCards(items', today')
    /\ detail' \in BundleDetails(bundle_cards', items', today')
    /\ page' = "Dashboard"

\* a run in which no form is submitted
script_run ==
    /\ UNCHANGED <<items, last>>
    /\ Render
    /\ UNCHANGED notCart

\* a run of the Alerts page: no Status column, and the cards drawn over the
\* loaded frame instead of the sorted one
alerts_page ==
    /\ UNCHANGED <<items, last>>
    /\ today' \in Clock
    /\ Status' = <<>>
    /\ bundle_cards' = bundle_status_block(df_loaded(items, today'), WarnDays)
    /\ detail' \in BundleDetails(bundle_cards', items, today')
    /\ page' = "Alerts"
    /\ UNCHANGED notCart

\* sidebar forms: the item comes from the selectbox over the loaded rows
form_edit_exp ==
    \E selected_item \in DOMAIN items, new_exp \in EditDates :
        /\ db_update_exp(selected_item, new_exp)
        /\ Render
        /\ UNCHANGED notCart

\* st.number_input("...", min_value=1, value=1, step=1)
form_cut_stock ==
    \E selected_item \in DOMAIN items, qty_use \in 1..MaxQty :
        /\ db_cut_stock(selected_item, qty_use)
        /\ Render
        /\ UNCHANGED notCart

form_reset ==
    \E selected_item \in DOMAIN items :
        /\ db_reset_stock(selected_item)
        /\ Render
        /\ UNCHANGED notCart

---------------------------------------------------------------------------
(* Direct calls of the mutators, with any item name and any integer *)

QtyRange == (0 - MaxNeg)..MaxQty

call_update_exp ==
    \E item_name \in Names, new_exp \in EditDates :
        /\ db_update_exp(item_name, new_exp)
        /\ UNCHANGED <<today, Status, bundle_cards, detail, page>>
        /\ UNCHANGED notCart

call_cut_stock ==
    \E item_name \in Names, qty_use \in QtyRange :
        /\ SelectCurrentStock(items, item_name) - qty_use <= MaxCur
        /\ db_cut_stock(item_name, qty_use)
        /\ UNCHANGED <<today, Status, bundle_cards, detail, page>>
        /\ UNCHANGED notCart

call_reset_stock ==
    \E item_name \in Names :
        /\ db_reset_stock(item_name)
        /\ UNCHANGED <<today, Status, bundle_cards, detail, page>>
        /\ UNCHANGED notCart

---------------------------------------------------------------------------
(* Two browser sessions in db_cut_stock: the SELECT and the UPDATE are two
   statements on a connection of their own, not one transaction *)

Sessions == {"s1", "s2"}

Call(pc, item_name, qty_use, cur, err) ==
    [pc |-> pc, item_name |-> item_name, qty_use |-> qty_use, cur |-> cur, err |-> err]

NoCall == Call("idle", "", 0, 0, NoError)

\* the SELECT of current_stock and the two checks on the value read
cut_select(s) ==
    \E item_name \in DOMAIN items, qty_use \in 1..MaxQty :
        LET cur == SelectCurrentStock(items, item_name)
        IN  /\ sess[s].pc = "idle"
            /\ sess' = [sess EXCEPT ![s] =
                    IF cur <= 0 THEN Call("done", item_name, qty_use, cur, ErrDepleted)
                    ELSE IF qty_use > cur THEN Call("done", item_name, qty_use, cur, ErrExceeds)
                    ELSE Call("selected", item_name, qty_use, cur, NoError)]
            /\ UNCHANGED <<cartVars, equipVars, probe, sideVars>>

\* the UPDATE with the value computed from the earlier read, and the commit
cut_update(s) ==
    /\ sess[s].pc = "selected"
    /\ items' = UpdateCurrentStock(items, sess[s].item_name,
                                   sess[s].cur - sess[s].qty_use)
    /\ sess' = [sess EXCEPT ![s].pc = "done"]
    /\ UNCHANGED <<today, last, Status, bundle_cards, detail, page, equipVars, probe, sideVars>>

---------------------------------------------------------------------------
(* equipment.db: the units, their daily checks and the latest status *)

MaxEquipId == 2     \* equipment.id is given up to this value
MaxChecks == 2      \* daily_checks holds up to this many rows

\* the four values of CHECK(status IN (...)), in the order of the source:
\* ready for use, not ready, borrowed by another ward, waiting for repair
Ready == "READY"
NotReady == "NOT_READY"
Borrowed == "BORROWED"
Repair == "REPAIR"
Statuses == {Ready, NotReady, Borrowed, Repair}

\* the grey badge of a unit without a check: not yet checked
NotChecked == "NOT_CHECKED"

\* unit names in the order of ORDER BY name, and the seeded list cut to its
\* first unit
EquipOrder == <<"Enerjet", "Smaz">>
EquipNames == {EquipOrder[i] : i \in 1..Len(EquipOrder)}
equipment_list == <<"Enerjet">>

\* str.strip() on the texts typed here
strip(text) ==
    IF text = " ICU " THEN "ICU"
    ELSE IF text = " b " THEN "b"
    ELSE IF text = " iv " THEN "iv"
    ELSE text

\* text.strip() if text else None
StripOrNone(text) == IF text = "" THEN NULL ELSE Some(strip(text))

\* (status, borrowed_to, remark) as typed; "OTHER" is no value of the CHECK
CheckInputs ==
    { <<Ready, "", "">>, <<Ready, " ICU ", "">>, <<NotReady, "", "note">>,
      <<Borrowed, " ICU ", "">>, <<Repair, "", "">>, <<"OTHER", "", "">> }

HasName(eq, name) == \E i \in 1..Len(eq) : eq[i].name = name

\* seed_initial_equipment: the list is inserted when the table has no row
seed_initial_equipment ==
    IF Len(equipment) > 0 THEN
        /\ equipment' = equipment
        /\ equipment_seq' = equipment_seq
    ELSE
        /\ equipment' = [i \in 1..Len(equipment_list) |->
                            [id |-> equipment_seq + i, name |-> equipment_list[i]]]
        /\ equipment_seq' = equipment_seq + Len(equipment_list)

\* load_equipment: seeds, then reads the table (equipment' is what it reads)
load_equipment ==
    /\ (Len(equipment) = 0) => equipment_seq + Len(equipment_list) <= MaxEquipId
    /\ seed_initial_equipment

\* as add_equipment, the id being one more than the greatest id of the table
\* (INTEGER PRIMARY KEY without AUTOINCREMENT)
add_equipment_rowid(name) ==
    LET top == IF Len(equipment) = 0 THEN 0
               ELSE CHOOSE v \in {equipment[i].id : i \in 1..Len(equipment)} :
                        \A i \in 1..Len(equipment) : equipment[i].id <= v
    IN  IF HasName(equipment, strip(name)) THEN
            /\ equipment' = equipment
            /\ equipment_seq' = equipment_seq
        ELSE
            /\ equipment' = Append(equipment, [id |-> top + 1, name |-> strip(name)])
            /\ equipment_seq' = equipment_seq + 1

\* INSERT INTO equipment; a name already there violates UNIQUE
add_equipment(name) ==
    IF HasName(equipment, strip(name)) THEN
        /\ equipment' = equipment
        /\ equipment_seq' = equipment_seq
    ELSE
        /\ equipment' = Append(equipment, [id |-> equipment_seq + 1, name |-> strip(name)])
        /\ equipment_seq' = equipment_seq + 1

\* DELETE FROM equipment WHERE id=?: the checks of the unit stay
delete_equipment(equipment_id) ==
    /\ equipment' = SelectSeq(equipment, LAMBDA r : r.id # equipment_id)
    /\ equipment_seq' = equipment_seq

\* as add_daily_check, replacing the latest record of the unit
add_daily_check_upsert(equipment_id, status, borrowed_to, remark) ==
    IF status \notin Statuses THEN
        /\ daily_checks' = daily_checks
        /\ checks_seq' = checks_seq
    ELSE
        /\ daily_checks' =
                Append(SelectSeq(daily_checks, LAMBDA r : r.equipment_id # equipment_id),
                       [id |-> checks_seq + 1, equipment_id |-> equipment_id,
                        status |-> status,
                        borrowed_to |-> StripOrNone(borrowed_to),
                        remark |-> StripOrNone(remark)])
        /\ checks_seq' = checks_seq + 1

\* INSERT INTO daily_checks; a status outside the CHECK inserts nothing
add_daily_check(equipment_id, status, borrowed_to, remark) ==
    IF status \notin Statuses THEN
        /\ daily_checks' = daily_checks
        /\ checks_seq' = checks_seq
    ELSE
        /\ daily_checks' =
                Append(daily_checks,
                       [id |-> checks_seq + 1, equipment_id |-> equipment_id,
                        status |-> status,
                        borrowed_to |-> StripOrNone(borrowed_to),
                        remark |-> StripOrNone(remark)])
        /\ checks_seq' = checks_seq + 1

\* SELECT MAX(id) FROM daily_checks GROUP BY equipment_id
LatestIds(dc) ==
    {dc[k].id : k \in {i \in 1..Len(dc) :
        \A j \in 1..Len(dc) :
            dc[j].equipment_id = dc[i].equipment_id => dc[j].id <= dc[i].id}}

\* the subquery dc: the rows of daily_checks WHERE id IN (...)
LatestChecks(dc) == SelectSeq(dc, LAMBDA r : r.id \in LatestIds(dc))

\* one unit LEFT JOIN dc ON e.id = dc.equipment_id
LeftJoin(e, dc) ==
    LET m == SelectSeq(dc, LAMBDA r : r.equipment_id = e.id)
    IN  IF Len(m) = 0 THEN
            << [id |-> e.id, name |-> e.name, status |-> NULL,
                borrowed_to |-> NULL, remark |-> NULL] >>
        ELSE
            [i \in 1..Len(m) |->
                [id |-> e.id, name |-> e.name, status |-> Some(m[i].status),
                 borrowed_to |-> m[i].borrowed_to, remark |-> m[i].remark]]

\* the joined rows of the units named EquipOrder[k], EquipOrder[k+1], ...
RECURSIVE JoinByName(_, _, _)
JoinByName(eq, dc, k) ==
    IF k > Len(EquipOrder) THEN <<>>
    ELSE LET named == SelectSeq(eq, LAMBDA e : e.name = EquipOrder[k])
         IN  (IF Len(named) = 0 THEN <<>> ELSE LeftJoin(named[1], dc))
                \o JoinByName(eq, dc, k + 1)

\* as get_latest_status, joining every check instead of the latest ones
get_latest_status_every_check(eq, dc) == JoinByName(eq, dc, 1)

get_latest_status(eq, dc) == JoinByName(eq, LatestChecks(dc), 1)

\* len(df_status[df_status["status"] == ...]) and .isin([...])
CountStatus(df_status, wanted) ==
    Len(SelectSeq(df_status,
                  LAMBDA r : ~IsNull(r.status) /\ Val(r.status) \in wanted))

\* as Metrics, every unit that is neither ready nor borrowed being not ready
Metrics_rest_not_ready(df_equipment, df_status) ==
    [total |-> Len(df_equipment),
     ready |-> CountStatus(df_status, {Ready}),
     borrowed |-> CountStatus(df_status, {Borrowed}),
     not_ready |-> Len(df_status) - CountStatus(df_status, {Ready, Borrowed})]

\* as Metrics, a borrowed unit being counted as not ready too
Metrics_borrowed_not_ready(df_equipment, df_status) ==
    [total |-> Len(df_equipment),
     ready |-> CountStatus(df_status, {Ready}),
     borrowed |-> CountStatus(df_status, {Borrowed}),
     not_ready |-> CountStatus(df_status, {NotReady, Repair, Borrowed})]

\* the four st.metric values of the dashboard
Metrics(df_equipment, df_status) ==
    [total |-> Len(df_equipment),
     ready |-> CountStatus(df_status, {Ready}),
     borrowed |-> CountStatus(df_status, {Borrowed}),
     not_ready |-> CountStatus(df_status, {NotReady, Repair})]

\* the card of every row of df_status: its badge and the borrower's caption
Cards(df_status) ==
    [i \in 1..Len(df_status) |->
        [id |-> df_status[i].id,
         badge |-> IF ~IsNull(df_status[i].status) THEN Val(df_status[i].status)
                   ELSE NotChecked,
         caption |-> IF df_status[i].status = Some(Borrowed)
                        /\ ~IsNull(df_status[i].borrowed_to)
                     THEN df_status[i].borrowed_to ELSE NULL]]

NoPage == [drawn |-> FALSE]

Page(df_equipment, df_status) ==
    [drawn |-> TRUE, df_status |-> df_status,
     metrics |-> Metrics(df_equipment, df_status), cards |-> Cards(df_status)]

\* a script run of the dashboard page
equipment_dashboard_page ==
    /\ load_equipment
    /\ dash' = Page(equipment', get_latest_status(equipment', daily_checks))
    /\ UNCHANGED <<daily_checks, checks_seq>>
    /\ UNCHANGED notEquip

\* a script run of the daily check page. The form of a loaded unit is
\* submitted; the borrower is asked for only when the status is the borrowed
\* one. Over an empty table the run seeds it and no form is submitted.
equipment_daily_check_page ==
    /\ load_equipment
    /\ IF Len(equipment) = 0 THEN
            UNCHANGED <<daily_checks, checks_seq>>
       ELSE
            \E i \in 1..Len(equipment), typed \in CheckInputs :
                LET status == typed[1]
                    borrowed_to == IF status = Borrowed THEN typed[2] ELSE ""
                IN  /\ Len(daily_checks) < MaxChecks
                    /\ status \in Statuses
                    /\ add_daily_check(equipment[i].id, status, borrowed_to, typed[3])
    /\ dash' = NoPage
    /\ UNCHANGED notEquip

\* direct calls, with any unit id and any texts
call_add_equipment ==
    \E name \in EquipNames :
        /\ equipment_seq < MaxEquipId
        /\ add_equipment(name)
        /\ dash' = NoPage
        /\ UNCHANGED <<daily_checks, checks_seq>>
        /\ UNCHANGED notEquip

call_delete_equipment ==
    \E equipment_id \in 1..MaxEquipId :
        /\ delete_equipment(equipment_id)
        /\ dash' = NoPage
        /\ UNCHANGED <<daily_checks, checks_seq>>
        /\ UNCHANGED notEquip

call_add_daily_check ==
    \E equipment_id \in 1..MaxEquipId, typed \in CheckInputs :
        /\ Len(daily_checks) < MaxChecks
        /\ add_daily_check(equipment_id, typed[1], typed[2], typed[3])
        /\ dash' = NoPage
        /\ UNCHANGED <<equipment, equipment_seq>>
        /\ UNCHANGED notEquip

---------------------------------------------------------------------------
(* src/turso_wrapper.py: TursoConnection and TursoCursor *)

MaxExecuted == 3    \* the client receives up to this many statements
MaxFetch == 3       \* a cursor is fetched from up to this many times
MaxBatch == 2       \* executemany is given up to this many parameter tuples
MaxDepth == 1       \* `with` blocks are nested up to this depth

\* result.rows of the statements run: no such attribute, or a list of rows
Results == {NULL, Some(<<>>), Some(<<"r1">>), Some(<<"r1", "r2">>)}

\* TursoConnection.__init__: the client is created and _closed is False
TursoConnection ==
    [_closed |-> FALSE, client_open |-> TRUE, client_closes |-> 0,
     executed |-> 0, call |-> "__init__", raised |-> FALSE, depth |-> 0]

\* TursoCursor.__init__ over a result; returned lists the fetch calls made
\* on the cursor so far and what each gave back
TursoCursor(result) == [_rows |-> result, returned |-> <<>>]

Returned(method, value) == [method |-> method, value |-> value]

\* the outcome of a method call on the connection
Called(method, raised) ==
    conn' = Some([Val(conn) EXCEPT !.call = method, !.raised = raised])

\* execute: raises on a closed connection; otherwise the statement goes to
\* the client, whose error is raised again
execute ==
    /\ ~IsNull(conn)
    /\ IF Val(conn)._closed THEN
            /\ Called("execute", TRUE)
            /\ cursor' = cursor
       ELSE
            /\ Val(conn).executed < MaxExecuted
            /\ \E result \in Results, ok \in BOOLEAN :
                /\ conn' = Some([Val(conn) EXCEPT !.call = "execute", !.raised = ~ok,
                                                  !.executed = @ + 1])
                /\ cursor' = IF ok THEN Some(TursoCursor(result)) ELSE cursor
    /\ UNCHANGED <<cartVars, sess, equipVars, probe, backup, legacy_csv>>

\* executemany: execute for every tuple of parameters_list, up to the first
\* one that raises; sent is the number of statements that reach the client
executemany ==
    /\ ~IsNull(conn)
    /\ \E n \in 0..MaxBatch :
        IF Val(conn)._closed THEN
            /\ Called("executemany", n > 0)
            /\ cursor' = cursor
        ELSE
            \E sent \in 0..n, ok \in BOOLEAN :
                /\ Val(conn).executed + sent <= MaxExecuted
                /\ ok => sent = n
                /\ ~ok => sent > 0
                /\ conn' = Some([Val(conn) EXCEPT !.call = "executemany", !.raised = ~ok,
                                                  !.executed = @ + sent])
                /\ cursor' = IF ok /\ n > 0 THEN Some(TursoCursor(Some(<<>>))) ELSE cursor
    /\ UNCHANGED <<cartVars, sess, equipVars, probe, backup, legacy_csv>>

\* commit: nothing
commit ==
    /\ ~IsNull(conn)
    /\ Called("commit", FALSE)
    /\ UNCHANGED <<cursor, cartVars, sess, equipVars, probe, backup, legacy_csv>>

\* close: the client is closed once, and _closed is set
close ==
    /\ ~IsNull(conn)
    /\ conn' = Some(IF Val(conn)._closed
                    THEN [Val(conn) EXCEPT !.call = "close", !.raised = FALSE]
                    ELSE [Val(conn) EXCEPT !.call = "close", !.raised = FALSE,
                                           !._closed = TRUE, !.client_open = FALSE,
                                           !.client_closes = @ + 1])
    /\ UNCHANGED <<cursor, cartVars, sess, equipVars, probe, backup, legacy_csv>>

\* __enter__ returns the connection
enter ==
    /\ ~IsNull(conn)
    /\ Val(conn).depth < MaxDepth
    /\ conn' = Some([Val(conn) EXCEPT !.call = "__enter__", !.raised = FALSE,
                                      !.depth = @ + 1])
    /\ UNCHANGED <<cursor, cartVars, sess, equipVars, probe, backup, legacy_csv>>

\* __exit__ does not close the connection
exit ==
    /\ ~IsNull(conn)
    /\ Val(conn).depth > 0
    /\ conn' = Some([Val(conn) EXCEPT !.call = "__exit__", !.raised = FALSE,
                                      !.depth = @ - 1])
    /\ UNCHANGED <<cursor, cartVars, sess, equipVars, probe, backup, legacy_csv>>

\* fetchone: the first row of the result, or None when there is no row
fetchone ==
    /\ ~IsNull(cursor)
    /\ Len(Val(cursor).returned) < MaxFetch
    /\ LET _rows == Val(cursor)._rows
           row == IF IsNull(_rows) \/ Len(Val(_rows)) = 0 THEN NULL
                  ELSE Some(Val(_rows)[1])
       IN  cursor' = Some([Val(cursor) EXCEPT
                            !.returned = Append(@, Returned("fetchone", row))])
    /\ UNCHANGED <<conn, cartVars, sess, equipVars, probe, backup, legacy_csv>>

\* fetchall: every row of the result
fetchall ==
    /\ ~IsNull(cursor)
    /\ Len(Val(cursor).returned) < MaxFetch
    /\ LET _rows == Val(cursor)._rows
           all == IF IsNull(_rows) THEN <<>> ELSE Val(_rows)
       IN  cursor' = Some([Val(cursor) EXCEPT
                            !.returned = Append(@, Returned("fetchall", all))])
    /\ UNCHANGED <<conn, cartVars, sess, equipVars, probe, backup, legacy_csv>>

---------------------------------------------------------------------------
(* src/device.py: the backup made once per day *)

MaxDate == 66       \* the calendar days are 0..MaxDate
MaxStarts == 5      \* the script is started up to this many times

RETENTION_DAYS == 31

\* device.py is not running
NotStarted == [started |-> FALSE]

\* the folders made and no database file yet; starts and calls count the
\* starts and the calls of backup_db made on the date today
Device ==
    [started |-> TRUE, today |-> 0, db_file |-> FALSE, db_mtime |-> 0,
     last_backup_date |-> NULL, copies |-> <<>>, runs |-> 0, starts |-> 0, calls |-> 0]

\* date.today(): the same day, the next one, or one about RETENTION_DAYS later
Dates(b) ==
    {d \in {b.today, b.today + 1, b.today + RETENTION_DAYS, b.today + RETENTION_DAYS + 1} :
        d <= MaxDate}

\* init_db through get_conn: sqlite3.connect creates the file
init_db(b, now) ==
    IF b.db_file THEN b ELSE [b EXCEPT !.db_file = TRUE, !.db_mtime = now]

\* backup_db: the copy keeps the modification time of the database
\* (shutil.copy2); then the copies modified before the cutoff are removed,
\* one modified on the day of the cutoff being before it or not (earlier)
backup_db(b, now, earlier) ==
    IF ~b.db_file THEN b.copies
    ELSE SelectSeq(Append(b.copies, [made |-> now, mtime |-> b.db_mtime]),
                   LAMBDA f : \/ now - f.mtime < RETENTION_DAYS
                              \/ now - f.mtime = RETENTION_DAYS /\ ~earlier)

\* as NeedsBackup, the date recorded in app_meta being ignored
NeedsBackup_every_start(b, now) == TRUE

\* get_meta("last_backup_date") != today
NeedsBackup(b, now) == b.last_backup_date # Some(now)

\* a start of the script: init_db(), then auto_backup_once_per_day()
auto_backup_once_per_day ==
    /\ backup.started
    /\ backup.runs < MaxStarts
    /\ \E now \in Dates(backup), earlier \in BOOLEAN :
        LET b == init_db(backup, now)
            due == NeedsBackup(b, now)
            same == now = backup.today
        IN  backup' =
                [b EXCEPT !.today = now,
                          !.copies = IF due THEN backup_db(b, now, earlier) ELSE @,
                          !.last_backup_date = IF due THEN Some(now) ELSE @,
                          !.db_mtime = IF due THEN now ELSE @,
                          !.runs = @ + 1,
                          !.starts = (IF same THEN @ ELSE 0) + 1,
                          !.calls = (IF same THEN @ ELSE 0) + (IF due THEN 1 ELSE 0)]
    /\ UNCHANGED <<cartVars, sess, equipVars, probe, tursoVars, legacy_csv>>

---------------------------------------------------------------------------
(* One row taken through the derived columns *)

NotRun == [fn |-> "none"]

\* a value as the items table holds it: SQLite keeps a text put into an
\* INTEGER column as text
Cell(kind, v) == [kind |-> kind, v |-> v]
IntCell(v) == Cell("integer", v)
TextCell == Cell("text", 0)
NullCell == Cell("null", 0)

\* pd.to_numeric(column, errors="coerce"): NaN for what is no number
to_numeric(cell) == IF cell.kind = "integer" THEN Some(cell.v) ELSE NULL

\* load_items, Clean types: Stock and Current_Stock of the loaded frame
CleanStock(stock) ==
    IF IsNull(to_numeric(stock)) THEN 0 ELSE Val(to_numeric(stock))
CleanCurrentStock(current_stock, stock) ==
    IF IsNull(to_numeric(current_stock)) THEN CleanStock(stock)
    ELSE Val(to_numeric(current_stock))

\* calendar dates
Date(y, m, d) == [year |-> y, month |-> m, day |-> d]
IsLeap(y) == (y % 4 = 0 /\ y % 100 # 0) \/ y % 400 = 0
DaysInMonth(y, m) ==
    IF m = 2 THEN (IF IsLeap(y) THEN 29 ELSE 28)
    ELSE IF m \in {4, 6, 9, 11} THEN 30 ELSE 31
DaysBeforeMonth == <<0, 31, 59, 90, 120, 151, 181, 212, 243, 273, 304, 334>>

\* the day number of a date, as date.toordinal()
ToOrdinal(dt) ==
    LET y == dt.year - 1
    IN  y * 365 + (y \div 4) - (y \div 100) + (y \div 400)
          + DaysBeforeMonth[dt.month]
          + (IF dt.month > 2 /\ IsLeap(dt.year) THEN 1 ELSE 0)
          + dt.day

\* the stored text of a date, by its format and its three numbers
IsoText(y, m, d) == [fmt |-> "YYYY-MM-DD", f |-> <<y, m, d>>]
DmyText(d, m, y) == [fmt |-> "DD/MM/YYYY", f |-> <<d, m, y>>]
OtherText == [fmt |-> "other", f |-> <<>>]

\* a timestamp for the numbers of a date of the calendar, NaT otherwise
DateOrNaT(y, m, d) ==
    IF m \in 1..12 /\ d \in 1..DaysInMonth(y, m) THEN Some(Date(y, m, d)) ELSE NULL

\* as to_datetime, taking the three numbers of a text for a date unchecked
to_datetime_unchecked(exp_date) ==
    IF IsNull(exp_date) THEN NULL
    ELSE LET text == Val(exp_date)
         IN  IF text.fmt = "YYYY-MM-DD" THEN Some(Date(text.f[1], text.f[2], text.f[3]))
             ELSE IF text.fmt = "DD/MM/YYYY" THEN Some(Date(text.f[3], text.f[2], text.f[1]))
             ELSE NULL

\* pd.to_datetime(EXP_Date, errors="coerce", format="mixed", dayfirst=True)
to_datetime(exp_date) ==
    IF IsNull(exp_date) THEN NULL
    ELSE LET text == Val(exp_date)
         IN  IF text.fmt = "YYYY-MM-DD" THEN DateOrNaT(text.f[1], text.f[2], text.f[3])
             ELSE IF text.fmt = "DD/MM/YYYY" THEN DateOrNaT(text.f[3], text.f[2], text.f[1])
             ELSE NULL

\* (ts - today).dt.days, NaN for NaT
DaysBetween(ts, td) ==
    IF IsNull(ts) THEN NULL ELSE Some(ToOrdinal(Val(ts)) - ToOrdinal(td))

\* item names as their words; str.lower() of the words used here
lower(word) ==
    CASE word = "ETT" -> "ett"
      [] word = "Endotracheal" -> "endotracheal"
      [] word = "Nasoendotracheal" -> "nasoendotracheal"
      [] word = "SETTING" -> "setting"
      [] word = "NSS" -> "nss"
      [] OTHER -> word

\* str.contains(r"\bETT\b|endotracheal", case=False, na=False)
Is_ETT(item_name) ==
    \E i \in 1..Len(item_name) :
        \/ lower(item_name[i]) = "ett"
        \/ lower(item_name[i]) \in {"endotracheal", "nasoendotracheal"}

\* as DateOffset, keeping the day of the month whatever the target month
DateOffset_day_kept(dt, months) ==
    LET total == dt.year * 12 + (dt.month - 1) - months
    IN  Date(total \div 12, (total % 12) + 1, dt.day)

\* ts - pd.DateOffset(months=...): the same day that many months earlier, or
\* the last day of that month when it has no such day
DateOffset(dt, months) ==
    LET total == dt.year * 12 + (dt.month - 1) - months
        y == total \div 12
        m == (total % 12) + 1
    IN  Date(y, m, IF dt.day <= DaysInMonth(y, m) THEN dt.day ELSE DaysInMonth(y, m))

\* Exchange_Due_ts: NaT, and EXP_Date_ts - 24 months on the rows of mask_ett
Exchange_Due_ts(is_ett, exp_ts) ==
    IF is_ett /\ ~IsNull(exp_ts) THEN Some(DateOffset(Val(exp_ts), 24)) ELSE NULL

\* the row of the frame for one stored row, with its derived columns
DerivedRow(stored, td) ==
    LET stock == CleanStock(stored.stock)
        exp_ts == to_datetime(stored.exp_date)
        is_ett == Is_ETT(stored.item_name)
        due_ts == Exchange_Due_ts(is_ett, exp_ts)
    IN  [Item_Name |-> stored.item_name,
         Stock |-> stock,
         Current_Stock |-> Some(CleanCurrentStock(stored.current_stock, stored.stock)),
         EXP_Date_ts |-> exp_ts,
         Days_to_Expire |-> DaysBetween(exp_ts, td),
         Is_ETT |-> is_ett,
         Exchange_Due_ts |-> due_ts,
         Days_to_Exchange |-> DaysBetween(due_ts, td)]

\* the top of a script run over one stored row, and its Status and its
\* highlight on the page
derive_columns ==
    /\ probe.fn = "stored"
    /\ probe' = [fn |-> "derived", stored |-> probe.stored, today |-> probe.today,
                 row |-> DerivedRow(probe.stored, probe.today),
                 Status |-> badge_for_row(DerivedRow(probe.stored, probe.today)),
                 style |-> highlight_row(DerivedRow(probe.stored, probe.today))]
    /\ UNCHANGED <<cartVars, sess, equipVars, sideVars>>

\* the rows and clock readings tried
ItemTexts ==
    { <<"ETT", "7.0">>, <<"ett", "holder">>, <<"Endotracheal", "tube">>,
      <<"SETTING">>, <<"NSS">> }
StockCells == {IntCell(0), IntCell(MaxStock), TextCell}
CurrentStockCells == {IntCell(c) : c \in 0..MaxStock} \cup {TextCell, NullCell}
ExpTexts ==
    {NULL, Some(OtherText), Some(DmyText(15, 3, 2027)), Some(DmyText(31, 2, 2027))}
        \cup {Some(IsoText(y, m, d)) : y \in {2026, 2027, 2028}, m \in {2, 3},
                                       d \in {15, 28, 29, 30, 31}}
Todays == {Date(2025, 3, 15), Date(2026, 2, 1)}

---------------------------------------------------------------------------
(* item_ORM.csv: the one-way import of the legacy file, run by load_items *)

\* the calendar date that is day 0 of the exp_date column
Epoch == Date(2027, 3, 1)

\* the columns a file must have to be imported
CsvColumns == {"Item_Name", "Stock", "Current_Stock", "EXP_Date"}

CsvRow(Item_Name, Stock, Current_Stock, EXP_Date, Bundle) ==
    [Item_Name |-> Item_Name, Stock |-> Stock, Current_Stock |-> Current_Stock,
     EXP_Date |-> EXP_Date, Bundle |-> Bundle]

\* a file: whether pd.read_csv reads it, its columns and its rows
CsvFile(readable, columns, rows) ==
    [readable |-> readable, columns |-> columns, rows |-> rows]

\* the tuple INSERTed for a row of the file: Stock and Current_Stock made
\* integers, EXP_Date parsed and written as ISO text, Bundle stripped
ImportedRow(r, columns) ==
    LET Stock == CleanStock(r.Stock)
        Current_Stock == IF IsNull(to_numeric(r.Current_Stock)) THEN Stock
                         ELSE Val(to_numeric(r.Current_Stock))
        exp_ts == to_datetime(r.EXP_Date)
    IN  Row(Stock, Current_Stock,
            IF IsNull(exp_ts) THEN NULL
            ELSE Some(ToOrdinal(Val(exp_ts)) - ToOrdinal(Epoch)),
            IF "Bundle" \notin columns \/ IsNull(r.Bundle) THEN NULL
            ELSE Some(strip(Val(r.Bundle))))

\* INSERT ... ON CONFLICT(item_name) DO UPDATE for one tuple
Upsert(its, item_name, row) ==
    [n \in DOMAIN its \cup {item_name} |-> IF n = item_name THEN row ELSE its[n]]

\* conn.executemany over the rows k, k+1, ... of the file
RECURSIVE ImportRows(_, _, _)
ImportRows(its, file, k) ==
    IF k > Len(file.rows) THEN its
    ELSE ImportRows(Upsert(its, strip(file.rows[k].Item_Name),
                           ImportedRow(file.rows[k], file.columns)),
                    file, k + 1)

\* as _migrate_csv_to_db_if_needed, without the test that the table is empty
_migrate_csv_to_db_every_run(its, csv) ==
    IF IsNull(csv) THEN its
    ELSE IF ~Val(csv).readable THEN its
    ELSE IF ~(CsvColumns \subseteq Val(csv).columns) THEN its
    ELSE ImportRows(its, Val(csv), 1)

\* the table after _migrate_csv_to_db_if_needed
_migrate_csv_to_db_if_needed(its, csv) ==
    IF IsNull(csv) THEN its
    ELSE IF DOMAIN its # {} THEN its
    ELSE IF ~Val(csv).readable THEN its
    ELSE IF ~(CsvColumns \subseteq Val(csv).columns) THEN its
    ELSE ImportRows(its, Val(csv), 1)

\* load_items: the import, then the read of the table (the demo seed is
\* off unless ALLOW_DEMO_SEED is set)
load_items ==
    /\ items' = _migrate_csv_to_db_if_needed(items, legacy_csv)
    /\ UNCHANGED <<today, last, Status, bundle_cards, detail, page>>
    /\ UNCHANGED <<sess, equipVars, probe, tursoVars, backup, legacy_csv>>

\* the rows and the files tried
CsvRows ==
    LET a == CsvRow("a", IntCell(MaxStock), IntCell(1),
                    Some(IsoText(2027, 3, 15)), Some(" iv "))
        a2 == CsvRow("a", IntCell(1), NullCell, NULL, Some("cpr"))
        b == CsvRow(" b ", TextCell, NullCell, Some(IsoText(2027, 3, 2)), NULL)
    IN  { <<>>, <<a>>, <<a, b>>, <<a, a2>> }
CsvFiles ==
    {NULL, Some(CsvFile(FALSE, {}, <<>>))}
        \cup {Some(CsvFile(TRUE, columns, rows)) :
                columns \in {CsvColumns \ {"EXP_Date"}, CsvColumns,
                              CsvColumns \cup {"Bundle"}},
                rows \in CsvRows}

---------------------------------------------------------------------------
(* Initial states and specifications *)

NullOr(S) == {NULL} \cup {Some(v) : v \in S}

\* no session is inside db_cut_stock
OneSession == sess = [s \in Sessions |-> NoCall]

\* equipment.db as init_equipment_db creates it, and no page drawn from it
NoEquipment ==
    /\ equipment = <<>>
    /\ daily_checks = <<>>
    /\ equipment_seq = 0
    /\ checks_seq = 0
    /\ dash = NoPage

\* no row is being taken through the derived columns
NoProbe == probe = NotRun

\* no Turso connection is made, device.py is not started and there is no
\* legacy CSV file
NoTurso == conn = NULL /\ cursor = NULL
NoDevice == backup = NotStarted
NoCsv == legacy_csv = NULL
NoSide == NoTurso /\ NoDevice /\ NoCsv

\* the page has been drawn once over the initial table
Drawn ==
    /\ today = 0
    /\ last = Request("none", "", 0, NoError, 0)
    /\ Status = StatusColumn(items, today)
    /\ bundle_cards = BundleCards(items, today)
    /\ detail \in BundleDetails(bundle_cards, items, today)
    /\ page = "Dashboard"

\* two rows ("c" has no row); any non-negative stock and current_stock
Init ==
    /\ items \in [{"a", "b"} ->
                    {Row(s, c, NULL, Some("iv")) : s \in 0..MaxStock, c \in 0..MaxStock}]
    /\ Drawn
    /\ OneSession /\ NoEquipment /\ NoProbe /\ NoSide

Next == call_update_exp \/ call_cut_stock \/ call_reset_stock

Spec == Init /\ [][Next]_vars

\* the same table with current_stock within par, used through the forms
InitForm ==
    /\ items \in [{"a", "b"} ->
                    {Row(s, c, NULL, Some("iv")) : s \in 0..MaxStock, c \in 0..MaxStock}]
    /\ \A n \in DOMAIN items : items[n].current_stock <= items[n].stock
    /\ Drawn
    /\ OneSession /\ NoEquipment /\ NoProbe /\ NoSide

NextForm == form_edit_exp \/ form_cut_stock \/ form_reset \/ script_run

SpecForm == InitForm /\ [][NextForm]_vars

\* three rows with every combination of current stock and expiry date
InitDash ==
    /\ \E layout \in BundleLayouts, cs \in [Names -> 0..MaxStock],
          es \in [Names -> NullOr(ExpDates)] :
            items = [n \in Names |->
                        Row(MaxStock, cs[n], es[n], layout[NameRank(n)])]
    /\ Drawn
    /\ OneSession /\ NoEquipment /\ NoProbe /\ NoSide

NextDash == script_run

SpecDash == InitDash /\ [][NextDash]_vars

\* three rows, each either used up or at par, with any expiry date
InitPages ==
    /\ \E layout \in BundleLayouts, cs \in [Names -> {0, MaxStock}],
          es \in [Names -> NullOr(ExpDates)] :
            items = [n \in Names |->
                        Row(MaxStock, cs[n], es[n], layout[NameRank(n)])]
    /\ Drawn
    /\ OneSession /\ NoEquipment /\ NoProbe /\ NoSide

NextPages == script_run \/ alerts_page

SpecPages == InitPages /\ [][NextPages]_vars

\* every item at par, and two sessions about to use the cut form
InitConc ==
    /\ items \in [{"a", "b"} ->
                    {Row(s, s, NULL, Some("iv")) : s \in 0..MaxCur}]
    /\ Drawn
    /\ OneSession /\ NoEquipment /\ NoProbe /\ NoSide

NextConc == \E s \in Sessions : cut_select(s) \/ cut_update(s)

SpecConc == InitConc /\ [][NextConc]_vars

\* equipment.db just created; the cart is at par and its page drawn
InitEquip ==
    /\ items = [n \in {"a", "b"} |-> Row(MaxStock, MaxStock, NULL, Some("iv"))]
    /\ Drawn
    /\ OneSession /\ NoEquipment /\ NoProbe /\ NoSide

NextEquip ==
    \/ call_add_equipment
    \/ call_delete_equipment
    \/ call_add_daily_check
    \/ equipment_daily_check_page
    \/ equipment_dashboard_page

SpecEquip == InitEquip /\ [][NextEquip]_vars

\* one stored row, not yet loaded
InitDerived ==
    /\ items = [n \in {"a", "b"} |-> Row(MaxStock, MaxStock, NULL, Some("iv"))]
    /\ Drawn
    /\ OneSession /\ NoEquipment /\ NoSide
    /\ \E item_name \in ItemTexts, stock \in StockCells,
          current_stock \in CurrentStockCells, exp_date \in ExpTexts, td \in Todays :
            probe = [fn |-> "stored",
                     stored |-> [item_name |-> item_name, stock |-> stock,
                                 current_stock |-> current_stock, exp_date |-> exp_date],
                     today |-> td]

NextDerived == derive_columns

SpecDerived == InitDerived /\ [][NextDerived]_vars

\* a connection just made, no statement run yet
InitTurso ==
    /\ items = [n \in {"a", "b"} |-> Row(MaxStock, MaxStock, NULL, Some("iv"))]
    /\ Drawn
    /\ OneSession /\ NoEquipment /\ NoProbe /\ NoDevice /\ NoCsv
    /\ conn = Some(TursoConnection)
    /\ cursor = NULL

NextTurso ==
    \/ execute
    \/ executemany
    \/ commit
    \/ close
    \/ enter
    \/ exit
    \/ fetchone
    \/ fetchall

SpecTurso == InitTurso /\ [][NextTurso]_vars

\* a table never filled, or filled by the app, next to a legacy file or none
InitCsv ==
    /\ items \in {<<>>, [n \in {"c"} |-> Row(MaxStock, MaxStock, NULL, Some("iv"))]}
    /\ Drawn
    /\ OneSession /\ NoEquipment /\ NoProbe /\ NoTurso /\ NoDevice
    /\ legacy_csv \in CsvFiles

NextCsv == load_items \/ call_update_exp \/ call_cut_stock \/ call_reset_stock

SpecCsv == InitCsv /\ [][NextCsv]_vars

\* device.py before its first start
InitDevice ==
    /\ items = [n \in {"a", "b"} |-> Row(MaxStock, MaxStock, NULL, Some("iv"))]
    /\ Drawn
    /\ OneSession /\ NoEquipment /\ NoProbe /\ NoTurso /\ NoCsv
    /\ backup = Device

NextDevice == auto_backup_once_per_day

SpecDevice == InitDevice /\ [][NextDevice]_vars

---------------------------------------------------------------------------
(* Properties of the status label and of the bundle cards (SpecDash) *)

\* the inputs of the classification of item n, read from the table
DaysOf(n) == Days_to_Expire(items[n].exp_date, today)
HasDays(n) == ~IsNull(DaysOf(n))
DaysVal(n) == Val(DaysOf(n))
CurOf(n) == items[n].current_stock

\* the rows whose normalised bundle tag is key, and the names a card lists
Members(key) ==
    {n \in DOMAIN items :
        ~IsNull(items[n].bundle) /\ BundleKey(Val(items[n].bundle)) = key}
BundleKeys ==
    {BundleKey(Val(items[n].bundle)) : n \in {m \in DOMAIN items : ~IsNull(items[m].bundle)}}
Blockers(key) ==
    {bundle_cards[key].problem[i] : i \in 1..Len(bundle_cards[key].problem)}

\* C1: the status label of every item is the first matching rule of the list
\* no days -> NO_EXPIRY_DATA; stock <= 0 -> OUT_OF_STOCK; days <= 0 -> EXPIRED;
\* 0 < days <= 30 -> EXPIRING_SOON; stock = 1 -> LOW_STOCK; otherwise OK.
C1_FirstMatchingRule ==
    \A n \in DOMAIN items :
        /\ ~HasDays(n) => Status[n] = NoEXP
        /\ (HasDays(n) /\ CurOf(n) <= 0) => Status[n] = Out
        /\ (HasDays(n) /\ CurOf(n) > 0 /\ DaysVal(n) <= 0) => Status[n] = EXP
        /\ (HasDays(n) /\ CurOf(n) > 0 /\ 0 < DaysVal(n) /\ DaysVal(n) <= 30)
                => Status[n] = Soon
        /\ (HasDays(n) /\ CurOf(n) = 1 /\ DaysVal(n) > 30) => Status[n] = Low
        /\ (HasDays(n) /\ CurOf(n) > 1 /\ DaysVal(n) > 30) => Status[n] = OK

\* an out-of-stock item past its expiry is labelled OUT_OF_STOCK while another
\* out-of-stock item without expiry date is labelled NO_EXPIRY_DATA
C1_Witness ==
    \E n, m \in DOMAIN items :
        /\ today > 0
        /\ HasDays(n) /\ DaysVal(n) < 0 /\ CurOf(n) = 0 /\ Status[n] = Out
        /\ ~HasDays(m) /\ CurOf(m) = 0 /\ Status[m] = NoEXP

\* a member is usable when it is in stock and not expired
Usable(n) == CurOf(n) > 0 /\ (~HasDays(n) \/ DaysVal(n) > 0)

\* a member is clear when it is in stock and more than 30 days from expiry
Clear(n) == CurOf(n) > 0 /\ (~HasDays(n) \/ DaysVal(n) > WarnDays)

C4_DayZeroExpired ==
    \A n \in DOMAIN items :
        (HasDays(n) /\ DaysVal(n) = 0) => Status[n] = EXP

\* C4 amended: an item that expires today is EXPIRED when it is in stock, and
\* OUT_OF_STOCK when its current stock is 0 or less.
C4_DayZeroExpiredInStock ==
    \A n \in DOMAIN items :
        (HasDays(n) /\ DaysVal(n) = 0) =>
            /\ CurOf(n) > 0 => Status[n] = EXP
            /\ CurOf(n) <= 0 => Status[n] = Out

\* an item in stock that expires today is labelled EXPIRED
C4_Witness ==
    \E n \in DOMAIN items :
        today > 0 /\ HasDays(n) /\ DaysVal(n) = 0 /\ CurOf(n) > 0 /\ Status[n] = EXP

\* C5: an item in stock with 1 to 30 days to expiry is EXPIRING_SOON, and no
\* item more than 30 days from expiry is.
C5_SoonWindow ==
    \A n \in DOMAIN items :
        /\ (HasDays(n) /\ DaysVal(n) \in 1..30 /\ CurOf(n) > 0) => Status[n] = Soon
        /\ (HasDays(n) /\ DaysVal(n) > 30) => Status[n] # Soon

\* an item at day 30 is EXPIRING_SOON next to one at day 31 that is not
C5_Witness ==
    \E n, m \in DOMAIN items :
        /\ today > 0
        /\ HasDays(n) /\ DaysVal(n) = 30 /\ CurOf(n) > 0 /\ Status[n] = Soon
        /\ HasDays(m) /\ DaysVal(m) = 31 /\ CurOf(m) > 0 /\ Status[m] # Soon

---------------------------------------------------------------------------
(* Properties of the stock mutators (Spec, SpecForm) *)

\* the step is a db_cut_stock request, recorded in last'
CutStep == last'.op = "db_cut_stock"
CutName == last'.item_name
CutQty == last'.arg
CurBefore == SelectCurrentStock(items, CutName)

\* C6: a db_cut_stock request for more than the current stock of an item in
\* stock is answered with the quantity error and changes no field of any item.
C6_TooMuchRejected ==
    [][(CutStep /\ CurBefore > 0 /\ CutQty > CurBefore)
            => (last'.err = ErrExceeds /\ items' = items)]_vars

\* the last request asked for more than the stock in hand and got that error
C6_Witness ==
    /\ last.op = "db_cut_stock"
    /\ last.err = ErrExceeds
    /\ SelectCurrentStock(items, last.item_name) > 0
    /\ last.arg > SelectCurrentStock(items, last.item_name)

\* C7: a db_cut_stock request with a quantity of 0 or less on an item in stock
\* is answered with an error and leaves current_stock as it was.
C7_NonPositiveRejected ==
    [][(CutStep /\ CurBefore > 0 /\ CutQty <= 0)
            => (last'.err # NoError /\ items' = items)]_vars

\* C8: a db_cut_stock request on an item with no stock left, or with no row,
\* is answered with the depleted error, which is not the quantity error,
\* whatever the quantity, and changes nothing.
C8_DepletedRejected ==
    [][(CutStep /\ CurBefore <= 0)
            => (/\ last'.err = ErrDepleted
                /\ last'.err # ErrExceeds
                /\ items' = items)]_vars

\* one unit was requested from a row at stock 0 and the depleted error came back
C8_Witness ==
    /\ last.op = "db_cut_stock"
    /\ last.arg = 1
    /\ last.item_name \in DOMAIN items
    /\ items[last.item_name].current_stock = 0
    /\ last.err = ErrDepleted

\* C9: current_stock never becomes negative, whatever is requested.
C9_StockNonNegative ==
    \A n \in DOMAIN items : items[n].current_stock >= 0

\* a request has just taken the last units of an item
C9_Witness ==
    /\ last.op = "db_cut_stock"
    /\ last.err = NoError
    /\ last.arg > 0
    /\ items[last.item_name].current_stock = 0

\* C10: used through the forms (quantities of 1 or more, reset to par),
\* current_stock never exceeds stock.
C10_StockWithinPar ==
    \A n \in DOMAIN items : items[n].current_stock <= items[n].stock

\* an item was cut below par and then reset to par
C10_Witness ==
    /\ last.op = "db_reset_stock"
    /\ last.ret > 0
    /\ items[last.item_name].current_stock = items[last.item_name].stock
    /\ \E n \in DOMAIN items : items[n].current_stock < items[n].stock

\* C21: db_reset_stock sets the current_stock of the item to its stock and
\* returns that value, whatever current_stock was; a second reset changes
\* nothing; stock, expiry date and bundle of the item and every field of the
\* other items stay as they were.
C21_ResetToPar ==
    [][last'.op = "db_reset_stock" =>
        LET n == last'.item_name
        IN  /\ DOMAIN items' = DOMAIN items
            /\ \A m \in DOMAIN items : m # n => items'[m] = items[m]
            /\ n \in DOMAIN items =>
                /\ items'[n] = [items[n] EXCEPT !.current_stock = items[n].stock]
                /\ last'.ret = items[n].stock
            /\ (last.op = "db_reset_stock" /\ last.item_name = n) => items' = items]_vars

\* an item holding more than par was reset, next to one that still holds more
C21_Witness ==
    /\ last.op = "db_reset_stock"
    /\ last.item_name \in DOMAIN items
    /\ last.ret > 0
    /\ items[last.item_name].current_stock = last.ret
    /\ \E m \in DOMAIN items : items[m].current_stock > items[m].stock

---------------------------------------------------------------------------
(* Properties of concurrent sessions (SpecConc) *)

\* C11: when two sessions run db_cut_stock concurrently on the same item with
\* quantities q1 and q2 and both return success, the item's current_stock is
\* its previous value (here the par stock) minus q1 + q2: no decrement is lost.
C11_NoLostDecrement ==
    \A s1, s2 \in Sessions :
        (/\ s1 # s2
         /\ sess[s1].pc = "done" /\ sess[s1].err = NoError
         /\ sess[s2].pc = "done" /\ sess[s2].err = NoError
         /\ sess[s1].item_name = sess[s2].item_name)
        => items[sess[s1].item_name].current_stock
             = items[sess[s1].item_name].stock
                 - (sess[s1].qty_use + sess[s2].qty_use)

---------------------------------------------------------------------------
(* Properties of the equipment tables and of the dashboard (SpecEquip) *)

\* the records of daily_checks that name the unit
ChecksOf(equipment_id) ==
    {j \in 1..Len(daily_checks) : daily_checks[j].equipment_id = equipment_id}

\* C12: the latest-status view holds exactly one row per unit, and the row of
\* a unit with records carries the status, borrowed_to and remark of the
\* record of that unit with the highest id.
C12_LatestRowPerUnit ==
    dash.drawn =>
        /\ Len(dash.df_status) = Len(equipment)
        /\ \A i \in 1..Len(equipment) :
            LET rows == {k \in 1..Len(dash.df_status) :
                            dash.df_status[k].id = equipment[i].id}
                own == ChecksOf(equipment[i].id)
            IN  /\ Cardinality(rows) = 1
                /\ \A k \in rows, j \in own :
                    (\A h \in own : daily_checks[h].id <= daily_checks[j].id)
                    => /\ dash.df_status[k].status = Some(daily_checks[j].status)
                       /\ dash.df_status[k].borrowed_to = daily_checks[j].borrowed_to
                       /\ dash.df_status[k].remark = daily_checks[j].remark

\* a unit checked twice with different statuses, its row showing the later one
C12_Witness ==
    /\ dash.drawn
    /\ \E i, j \in 1..Len(daily_checks), k \in 1..Len(dash.df_status) :
        /\ i < j
        /\ daily_checks[i].equipment_id = daily_checks[j].equipment_id
        /\ daily_checks[i].status # daily_checks[j].status
        /\ dash.df_status[k].id = daily_checks[j].equipment_id
        /\ dash.df_status[k].status = Some(daily_checks[j].status)

\* C13: a unit with no check record has a null status in the latest-status
\* view, is shown as not yet checked, and is counted in none of the ready,
\* borrowed and not-ready totals: the three totals add up to the checked units.
C13_UncheckedUnit ==
    dash.drawn =>
        LET unchecked == {k \in 1..Len(dash.df_status) :
                            ChecksOf(dash.df_status[k].id) = {}}
        IN  /\ \A k \in unchecked :
                /\ IsNull(dash.df_status[k].status)
                /\ dash.cards[k].badge = NotChecked
            /\ dash.metrics.ready + dash.metrics.borrowed + dash.metrics.not_ready
                 = dash.metrics.total - Cardinality(unchecked)

\* the dashboard over one unit without a check and one with a check
C13_Witness ==
    /\ dash.drawn
    /\ \E k, h \in 1..Len(dash.df_status) :
        /\ ChecksOf(dash.df_status[k].id) = {}
        /\ dash.cards[k].badge = NotChecked
        /\ ChecksOf(dash.df_status[h].id) # {}
    /\ dash.metrics.total = 2
    /\ dash.metrics.ready + dash.metrics.borrowed + dash.metrics.not_ready = 1

\* C14: each successful add_daily_check adds exactly one record, whose id is
\* greater than every id stored before, and leaves every earlier record and
\* all units as they were.
C14_AppendOnly ==
    [][daily_checks' # daily_checks =>
        /\ Len(daily_checks') = Len(daily_checks) + 1
        /\ SubSeq(daily_checks', 1, Len(daily_checks)) = daily_checks
        /\ \A j \in 1..Len(daily_checks) :
            daily_checks[j].id < daily_checks'[Len(daily_checks')].id
        /\ equipment' = equipment]_vars

\* two records of one unit, the second with the greater id
C14_Witness ==
    /\ Len(daily_checks) >= 2
    /\ Len(equipment) > 0
    /\ daily_checks[1].equipment_id = daily_checks[2].equipment_id
    /\ daily_checks[1].id < daily_checks[2].id

\* C15: a stored record has a non-empty borrowed_to only if its status is the
\* borrowed one: no sequence of add_daily_check calls stores a record with
\* another status and a borrower.
C15_BorrowerOnlyWhenBorrowed ==
    \A j \in 1..Len(daily_checks) :
        (~IsNull(daily_checks[j].borrowed_to) /\ Val(daily_checks[j].borrowed_to) # "")
        => daily_checks[j].status = Borrowed

\* the ids of the units of the table
UnitIds(eq) == {eq[i].id : i \in 1..Len(eq)}

\* C22: deleting a unit also deletes all its check records: after a step
\* that removes a unit, no record of daily_checks names the id of that unit.
C22_DeleteRemovesChecks ==
    [][\A equipment_id \in UnitIds(equipment) \ UnitIds(equipment') :
            \A j \in 1..Len(daily_checks') :
                daily_checks'[j].equipment_id # equipment_id]_vars

\* C24: the initial list is seeded at most once: a dashboard run that finds
\* the table empty and leaves it filled is the first load of a store that
\* never held a unit (no id was given yet).
C24_SeededOnce ==
    [][(Len(equipment) = 0 /\ dash'.drawn /\ Len(equipment') > 0)
        => equipment_seq = 0]_vars

\* C28 as stated: a newly added unit has no check history, whatever was
\* added, checked and deleted before: no record of daily_checks names the id
\* it is given.
C28_NewUnitHasNoHistory ==
    [][\A equipment_id \in UnitIds(equipment') \ UnitIds(equipment) :
            \A j \in 1..Len(daily_checks') :
                daily_checks'[j].equipment_id # equipment_id]_vars

\* C28: when every record of daily_checks names an id that was given to a
\* unit, in the table or deleted, a newly added unit has no check history:
\* no record names the id it is given.
C28_NewUnitAfterDeletions ==
    [][(\A j \in 1..Len(daily_checks) : daily_checks[j].equipment_id <= equipment_seq)
        => \A equipment_id \in UnitIds(equipment') \ UnitIds(equipment) :
            \A j \in 1..Len(daily_checks') :
                daily_checks'[j].equipment_id # equipment_id]_vars

\* a unit added after the deletion of a checked unit, shown as not yet checked
C28_Witness ==
    /\ dash.drawn
    /\ \A j \in 1..Len(daily_checks) : daily_checks[j].equipment_id <= equipment_seq
    /\ \E k \in 1..Len(dash.cards), j \in 1..Len(daily_checks) :
        /\ dash.cards[k].badge = NotChecked
        /\ daily_checks[j].equipment_id \notin UnitIds(equipment)
        /\ daily_checks[j].equipment_id < dash.cards[k].id

\* the units of the table without a record in daily_checks
UncheckedUnits ==
    {i \in 1..Len(equipment) : ChecksOf(equipment[i].id) = {}}

\* the totals among ready, borrowed and not ready that count row k
CountedIn(k) ==
    {wanted \in {{Ready}, {Borrowed}, {NotReady, Repair}} :
        /\ ~IsNull(dash.df_status[k].status)
        /\ Val(dash.df_status[k].status) \in wanted}

\* C30: on the dashboard every unit is counted in at most one of the ready,
\* borrowed and not-ready totals, the three totals add up to at most the
\* total, and what is missing is the number of units without a check record.
C30_TotalsPartition ==
    dash.drawn =>
        LET sum == dash.metrics.ready + dash.metrics.borrowed + dash.metrics.not_ready
        IN  /\ \A k \in 1..Len(dash.df_status) : Cardinality(CountedIn(k)) <= 1
            /\ dash.metrics.total = Len(equipment)
            /\ sum <= dash.metrics.total
            /\ dash.metrics.total - sum = Cardinality(UncheckedUnits)

\* the dashboard over a borrowed unit and a unit never checked
C30_Witness ==
    /\ dash.drawn
    /\ dash.metrics.total = 2
    /\ dash.metrics.borrowed = 1
    /\ dash.metrics.ready = 0
    /\ dash.metrics.not_ready = 0
    /\ Cardinality(UncheckedUnits) = 1

---------------------------------------------------------------------------
(* Properties of the table under a bundle card (SpecPages) *)

\* the names of the frame a page hands to bundle_status_block, in its order
InputNames ==
    IF page = "Alerts" THEN SelectSeq(NameOrder, LAMBDA n : n \in DOMAIN items)
    ELSE [i \in 1..Len(df_sorted(items, today)) |-> df_sorted(items, today)[i].Item_Name]

\* the members of a bundle that block it, in the order of the input group
FirstSeen(key) == SelectSeq(InputNames, LAMBDA n : n \in Blockers(key))

\* days-to-expire as the table sorts it: an unknown expiry counts as 999999
DaysShown(n) == IF HasDays(n) THEN DaysVal(n) ELSE NoDays

\* C16 as stated: under a NOT READY bundle the blocking items are listed in
\* first-seen order, the order in which they occur in the input group, and
\* not sorted by name, by days-to-expire or by kind of problem.
C16_FirstSeenOrder ==
    \A key \in DOMAIN bundle_cards :
        ~bundle_cards[key].is_ready => detail[key] = FirstSeen(key)

\* C16: under a NOT READY bundle every blocking item is listed once, in
\* ascending order of days-to-expire, an item of unknown expiry coming last.
C16_ListedByDays ==
    \A key \in DOMAIN bundle_cards :
        ~bundle_cards[key].is_ready =>
            /\ Len(detail[key]) = bundle_cards[key].problem_count
            /\ {detail[key][i] : i \in 1..Len(detail[key])} = Blockers(key)
            /\ \A i, j \in 1..Len(detail[key]) :
                i < j => DaysShown(detail[key][i]) <= DaysShown(detail[key][j])

\* the Alerts page listing two blockers of distinct days against the order
\* of the loaded frame
C16_Witness ==
    /\ page = "Alerts"
    /\ today > 0
    /\ \E key \in DOMAIN bundle_cards :
        /\ Len(detail[key]) >= 2
        /\ detail[key] # FirstSeen(key)
        /\ DaysShown(detail[key][1]) < DaysShown(detail[key][2])

\* C17: an item without bundle tag takes part in no bundle evaluation, every
\* bundle drawn has at least one member, and when no item has a tag no verdict
\* is drawn at all.
C17_UntaggedInNoBundle ==
    /\ DOMAIN bundle_cards = BundleKeys
    /\ \A key \in DOMAIN bundle_cards :
        /\ bundle_cards[key].total_items = Cardinality(Members(key))
        /\ bundle_cards[key].total_items >= 1
        /\ Blockers(key) \subseteq Members(key)
        /\ bundle_cards[key].is_ready = (\A n \in Members(key) : Clear(n))
    /\ (\A n \in DOMAIN items : IsNull(items[n].bundle)) =>
            (DOMAIN bundle_cards = {} /\ DOMAIN detail = {})

\* an untagged item that is used up, next to a bundle that is ready
C17_Witness ==
    /\ today > 0
    /\ \E n \in DOMAIN items : IsNull(items[n].bundle) /\ CurOf(n) = 0
    /\ \E key \in DOMAIN bundle_cards : bundle_cards[key].is_ready

---------------------------------------------------------------------------
(* Properties of the derived columns of one row (SpecDerived) *)

\* the names tried that are tracheal tubes: the word ETT in any case, or a
\* name containing "endotracheal"
TrachealNames == { <<"ETT", "7.0">>, <<"ett", "holder">>, <<"Endotracheal", "tube">> }

\* C18: exchange_due_date is defined exactly for tracheal tubes that have an
\* expiry date, and is then the expiry date 24 calendar months earlier, same
\* day of the month, or the last day of that month when it has no such day
\* (2027-03-15 -> 2025-03-15, 2028-02-29 -> 2026-02-28); it is always a date
\* of the calendar, and days_to_exchange = exchange_due_date - today is
\* undefined whenever exchange_due_date is.
C18_ExchangeDue ==
    probe.fn = "derived" =>
        LET exp == probe.row.EXP_Date_ts
            due == probe.row.Exchange_Due_ts
            tube == probe.stored.item_name \in TrachealNames
        IN  /\ ~IsNull(due) <=> (tube /\ ~IsNull(exp))
            /\ ~IsNull(due) =>
                LET month_end == DaysInMonth(Val(exp).year - 2, Val(exp).month)
                IN  /\ Val(due).year = Val(exp).year - 2
                    /\ Val(due).month = Val(exp).month
                    /\ Val(due).day = (IF Val(exp).day <= month_end THEN Val(exp).day ELSE month_end)
                    /\ Val(due).day \in 1..DaysInMonth(Val(due).year, Val(due).month)
                    /\ probe.row.Days_to_Exchange
                         = Some(ToOrdinal(Val(due)) - ToOrdinal(probe.today))
            /\ IsNull(due) => IsNull(probe.row.Days_to_Exchange)
            /\ (tube /\ exp = Some(Date(2027, 3, 15))) =>
                /\ due = Some(Date(2025, 3, 15))
                /\ probe.today = Date(2025, 3, 15) => probe.row.Days_to_Exchange = Some(0)
                /\ probe.today = Date(2026, 2, 1) => probe.row.Days_to_Exchange = Some(0 - 323)
            /\ (tube /\ exp = Some(Date(2028, 2, 29))) => due = Some(Date(2026, 2, 28))

\* a tracheal tube expiring on 29 February 2028, due on 28 February 2026
C18_Witness ==
    /\ probe.fn = "derived"
    /\ probe.stored.item_name = <<"Endotracheal", "tube">>
    /\ probe.row.EXP_Date_ts = Some(Date(2028, 2, 29))
    /\ probe.row.Exchange_Due_ts = Some(Date(2026, 2, 28))
    /\ ~IsNull(probe.row.Days_to_Exchange)

\* C19: a missing or non-numeric current_stock is treated as 0 by the
\* classification: an item with a defined days_to_expire and such a
\* current_stock is classified OUT_OF_STOCK.
C19_MissingStockIsOut ==
    (/\ probe.fn = "derived"
     /\ ~IsNull(probe.row.Days_to_Expire)
     /\ probe.stored.current_stock.kind # "integer")
    => probe.Status = Out

\* the stored texts tried that are no date of the calendar
Unparsable ==
    {Some(OtherText), Some(DmyText(31, 2, 2027))}
        \cup {Some(IsoText(y, 2, d)) : y \in {2026, 2027, 2028}, d \in {30, 31}}
        \cup {Some(IsoText(y, 2, 29)) : y \in {2026, 2027}}

\* C20: an item whose stored expiry date cannot be parsed is handled as one
\* without expiry date: days_to_expire is undefined and the status is
\* NO_EXPIRY_DATA; an item with undefined days_to_expire is never OK.
C20_UnparsableIsNoExpiry ==
    probe.fn = "derived" =>
        /\ probe.stored.exp_date \in Unparsable =>
            /\ IsNull(probe.row.Days_to_Expire)
            /\ probe.Status = NoEXP
        /\ IsNull(probe.row.Days_to_Expire) => probe.Status # OK

\* 30 February as stored expiry date of an item in stock
C20_Witness ==
    /\ probe.fn = "derived"
    /\ probe.stored.exp_date = Some(IsoText(2027, 2, 30))
    /\ probe.stored.current_stock = IntCell(MaxStock)
    /\ IsNull(probe.row.Days_to_Expire)
    /\ probe.Status = NoEXP

\* C29: the highlight of a row agrees with its status label: a row labelled
\* Out or EXP is coloured red, a row labelled No EXP or OK has no colour.
C29_HighlightAgreesWithBadge ==
    probe.fn = "derived" =>
        /\ probe.Status \in {Out, EXP} => probe.style = Red
        /\ probe.Status \in {NoEXP, OK} => probe.style = NoColour

---------------------------------------------------------------------------
(* Properties of the Turso wrapper (SpecTurso) *)

\* the number of rows a sqlite3 cursor over rows has handed out before the
\* k-th fetch call made on the cursor
RECURSIVE Consumed(_, _, _)
Consumed(rows, calls, k) ==
    IF k = 1 THEN 0
    ELSE LET before == Consumed(rows, calls, k - 1)
         IN  IF calls[k - 1].method = "fetchall" THEN Len(rows)
             ELSE IF before < Len(rows) THEN before + 1
             ELSE before

\* C23: over a result of n rows the successive fetchone calls return row 1,
\* row 2, ..., row n and then None, and fetchall returns only the rows not
\* yet fetched.
C23_CursorAdvances ==
    ~IsNull(cursor) =>
        LET c == Val(cursor)
            rows == IF IsNull(c._rows) THEN <<>> ELSE Val(c._rows)
        IN  \A k \in 1..Len(c.returned) :
                LET done == Consumed(rows, c.returned, k)
                IN  c.returned[k].value =
                        IF c.returned[k].method = "fetchall"
                        THEN SubSeq(rows, done + 1, Len(rows))
                        ELSE IF done < Len(rows) THEN Some(rows[done + 1])
                        ELSE NULL

\* C27: the closed state is absorbing: on a closed connection execute and
\* executemany raise and send nothing to the client, and close changes
\* nothing; leaving a with block does not close the connection.
C27_ClosedIsAbsorbing ==
    [][(~IsNull(conn) /\ ~IsNull(conn')) =>
        /\ Val(conn)._closed =>
            /\ Val(conn')._closed
            /\ Val(conn').executed = Val(conn).executed
            /\ Val(conn').client_closes = Val(conn).client_closes
            /\ Val(conn').call \in {"execute", "executemany"} => Val(conn').raised
        /\ Val(conn').call = "__exit__" =>
            /\ Val(conn')._closed = Val(conn)._closed
            /\ Val(conn').client_open = Val(conn).client_open]_vars

---------------------------------------------------------------------------
(* Properties of the daily backup (SpecDevice) *)

\* C26: the automatic backup runs at most once per calendar day: a start
\* calls backup_db exactly when it is the first start on its date, be it the
\* first start of all or the first one of a later date.
C26_BackupOncePerDay ==
    [][backup'.runs = backup.runs + 1 =>
        LET first == backup.starts = 0 \/ backup'.today # backup.today
        IN  /\ backup'.calls = IF first THEN 1 ELSE backup.calls
            /\ backup'.calls = 1
            /\ backup'.last_backup_date = Some(backup'.today)]_vars

\* the second start of a date on which, and before which, a backup was made
C26_Witness ==
    /\ backup.started
    /\ backup.today > 0
    /\ backup.starts = 2
    /\ backup.calls = 1
    /\ \E i, j \in 1..Len(backup.copies) :
        /\ backup.copies[i].made < backup.today
        /\ backup.copies[j].made = backup.today

---------------------------------------------------------------------------
(* Properties of the legacy import (SpecCsv) *)

\* C25: the import is first-run only: whenever the items table holds at
\* least one row, _migrate_csv_to_db_if_needed changes no row of it, so what
\* the app wrote is not overwritten by the contents of the file.
C25_ImportOnlyIntoEmptyTable ==
    DOMAIN items # {} =>
        _migrate_csv_to_db_if_needed(items, legacy_csv) = items

\* a table imported from the file, one of its items cut since
C25_Witness ==
    /\ ~IsNull(legacy_csv)
    /\ DOMAIN items = {"a", "b"}
    /\ items["b"] = ImportedRow(Val(legacy_csv).rows[2], Val(legacy_csv).columns)
    /\ last.op = "db_cut_stock" /\ last.item_name = "a" /\ last.err = NoError
    /\ items["a"].current_stock = 0
    /\ ImportRows(<<>>, Val(legacy_csv), 1)["a"].current_stock = 1

====
